---------------------------- MODULE Spec2Model ----------------------------
(***************************************************************************)
(* A model of the fashion-item data scraper: the listing harvester         *)
(* (scrapers/brand_crawler.py), the detail extractor                       *)
(* (scrapers/product_scraper.py), the asset downloader                     *)
(* (utils/image_downloader.py) and the orchestrator (pipeline.py).         *)
(*                                                                         *)
(* Strings that the code parses or rewrites (anchor hrefs, image URLs) are *)
(* sequences of tokens; a Python Optional[X] is the set {} (None) or {x};  *)
(* a Python dict with optional keys is a function whose domain is the set  *)
(* of keys present.                                                        *)
(***************************************************************************)
EXTENDS Integers, Sequences, FiniteSets, TLC

VARIABLES
    call,            \* the component call last made: its inputs and its result
    pc,              \* position of the pipeline run
    args,            \* arguments of the pipeline run in progress
    crawler,         \* the BrandCrawler session: playwright, browser, page
    scraper,         \* the ProductScraper session: playwright, browser, page
    brand_products,  \* run_brand_pipeline: the dict harvested, in insertion order
    harvest_log,     \* what happened in each search_brand_products call of the run
    harvested_ids,   \* run_recommend_pipeline: the ids harvested
    todo,            \* the (brand, product id) pairs still to scrape, in order
    products,        \* scrape_products: the local list of records
    results,         \* DataPipeline.results
    exc              \* the exception propagating out of the run, or "none"

vars == <<call, pc, args, crawler, scraper, brand_products, harvest_log,
          harvested_ids, todo, products, results, exc>>

(***************************************************************************)
(* Python values                                                           *)
(***************************************************************************)
None == {}
Some(v) == {v}
Get(o) == CHOOSE v \in o : TRUE

\* Python truthiness of an Optional[int]: None and 0 are falsy.
TruthyInt(o) == o # None /\ Get(o) # 0

\* x in list
InList(x, s) == \E i \in 1..Len(s) : s[i] = x

\* s[:n] for n >= 0
Take(s, n) == SubSeq(s, 1, IF n < Len(s) THEN n ELSE Len(s))

\* All sequences over S of length at most n.
SeqsUpTo(S, n) == UNION {[1..k -> S] : k \in 0..n}

(***************************************************************************)
(* BrandCrawler._extract_product_ids                                       *)
(***************************************************************************)
Digits == {"1", "2"}
ProductsSeg == "/products/"

\* The longest run of digit tokens of href that starts at position i.
RECURSIVE DigitRun(_, _)
DigitRun(href, i) ==
    IF i <= Len(href) /\ href[i] \in Digits
    THEN <<href[i]>> \o DigitRun(href, i + 1)
    ELSE <<>>

\* re.search(r'/products/(\d+)', href): group 1 of the leftmost match, or <<>>
\* when nothing matches (a match holds at least one digit).
ReSearchProductId(href) ==
    LET hits == {i \in 1..Len(href) :
                    /\ href[i] = ProductsSeg
                    /\ i < Len(href)
                    /\ href[i + 1] \in Digits}
    IN  IF hits = {} THEN <<>>
        ELSE DigitRun(href, 1 + CHOOSE i \in hits : \A j \in hits : i <= j)

\* soup.select('a[href*="/products/"]'): the anchors whose href holds the
\* segment, in document order.
HasProductsSeg(href) == \E i \in 1..Len(href) : href[i] = ProductsSeg
SelectProductLinks(anchors) == SelectSeq(anchors, HasProductsSeg)

\* The cap test after an append (brand_crawler.py:167).
CapReached(product_ids, max_products) ==
    TruthyInt(max_products) /\ Len(product_ids) >= Get(max_products)

\* The membership test before an append (brand_crawler.py:164); SeenNever is
\* the test that never finds the id.
SeenNever(product_id, product_ids) == FALSE

Seen(product_id, product_ids) == InList(product_id, product_ids)

\* The for loop over product_links from link i on.
RECURSIVE ExtractLoop(_, _, _, _)
ExtractLoop(product_links, i, product_ids, max_products) ==
    IF i > Len(product_links) THEN product_ids
    ELSE LET product_id == ReSearchProductId(product_links[i])
         IN  IF product_id = <<>> \/ Seen(product_id, product_ids)
             THEN ExtractLoop(product_links, i + 1, product_ids, max_products)
             ELSE LET appended == Append(product_ids, product_id)
                  IN  IF CapReached(appended, max_products)
                      THEN appended
                      ELSE ExtractLoop(product_links, i + 1, appended,
                                       max_products)

\* content is the page's anchors, or None when page.content() or the parser
\* raises: the handler then returns the list as it stands, which is empty.
_extract_product_ids(content, max_products) ==
    IF content = None THEN <<>>
    ELSE ExtractLoop(SelectProductLinks(Get(content)), 1, <<>>, max_products)

(***************************************************************************)
(* BrandCrawler.search_brand_products, get_recommend_products              *)
(***************************************************************************)
\* A call returns normally with a value (ret, an Optional) or lets a
\* BaseException that no `except Exception` catches (KeyboardInterrupt)
\* propagate.
Returned(v) == [raised |-> FALSE, ret |-> v]
Propagates == [raised |-> TRUE, ret |-> None]

\* env is what the site does during the call:
\*   nav     "ok", "error" (goto or a wait raises) or "interrupt"
\*   input   whether query_selector finds the search input
\*   submit  "ok" or "error" (fill or press raises)
\*   filter  "absent", "clicked" or "error" (the query or the click raises)
\*   content the anchors of the result page, or None when content() raises
\* Without a search input the function falls off its end and returns None.
\* SearchWithoutReturnInHandler is the function whose `except Exception`
\* handler only logs, so that a failed search returns None.
SearchWithoutReturnInHandler(brand_name, max_products, env) ==
    IF env.nav = "interrupt" THEN Propagates
    ELSE IF env.nav = "error" \/ ~env.input \/ env.submit = "error"
    THEN Returned(None)
    ELSE Returned(Some(_extract_product_ids(env.content, max_products)))

search_brand_products(brand_name, max_products, env) ==
    IF env.nav = "interrupt" THEN Propagates
    ELSE IF env.nav = "error" THEN Returned(Some(<<>>))
    ELSE IF ~env.input THEN Returned(None)
    ELSE IF env.submit = "error" THEN Returned(Some(<<>>))
    ELSE Returned(Some(_extract_product_ids(env.content, max_products)))

\* _scroll_to_load_products absorbs its own errors, so only navigation and
\* the page content decide the result.
get_recommend_products(gender_filter, max_products, env) ==
    IF env.nav = "interrupt" THEN Propagates
    ELSE IF env.nav = "error" THEN Returned(Some(<<>>))
    ELSE Returned(Some(_extract_product_ids(env.content, max_products)))

(***************************************************************************)
(* The browser session of BrandCrawler and ProductScraper                  *)
(***************************************************************************)
\* TRUE: the object is held and open.
NoSession == [playwright |-> FALSE, browser |-> FALSE, page |-> FALSE]

_init_browser(self) == [playwright |-> TRUE, browser |-> TRUE, page |-> TRUE]

\* CloseKeepsDriver is close() without the playwright.stop() call.
CloseKeepsDriver(self) == [self EXCEPT !.page = FALSE, !.browser = FALSE]

close(self) ==
    [self EXCEPT !.page = FALSE, !.browser = FALSE, !.playwright = FALSE]

IsOpen(self) == self.playwright \/ self.browser \/ self.page

(***************************************************************************)
(* ProductScraper._extract_image_urls                                      *)
(***************************************************************************)
SmallMarker == <<"_125", ".">>
LargeMarker == <<"_500", ".">>

\* src and src.startswith('http'): a missing or empty src is <<>>.
IsHttp(src) == Len(src) > 0 /\ src[1] = "http"

\* str.replace(old, new): every non-overlapping occurrence, left to right.
RECURSIVE Replace(_, _, _)
Replace(s, old, new) ==
    IF Len(s) < Len(old) THEN s
    ELSE IF SubSeq(s, 1, Len(old)) = old
         THEN new \o Replace(SubSeq(s, Len(old) + 1, Len(s)), old, new)
         ELSE <<s[1]>> \o Replace(Tail(s), old, new)

\* The loop over main_images: every http src is appended.
RECURSIVE AddMain(_, _)
AddMain(image_urls, imgs) ==
    IF imgs = <<>> THEN image_urls
    ELSE AddMain(IF IsHttp(Head(imgs)) THEN Append(image_urls, Head(imgs))
                 ELSE image_urls,
                 Tail(imgs))

\* The loop over thumbnails: the rewritten src is appended unless present.
RECURSIVE AddThumbs(_, _)
AddThumbs(image_urls, imgs) ==
    IF imgs = <<>> THEN image_urls
    ELSE LET original_url == Replace(Head(imgs), SmallMarker, LargeMarker)
         IN  AddThumbs(IF IsHttp(Head(imgs)) /\ ~InList(original_url, image_urls)
                       THEN Append(image_urls, original_url)
                       ELSE image_urls,
                       Tail(imgs))

\* The loop over detail_images: the src is appended unless present.
RECURSIVE AddDetail(_, _)
AddDetail(image_urls, imgs) ==
    IF imgs = <<>> THEN image_urls
    ELSE AddDetail(IF IsHttp(Head(imgs)) /\ ~InList(Head(imgs), image_urls)
                   THEN Append(image_urls, Head(imgs))
                   ELSE image_urls,
                   Tail(imgs))

\* page.fail names the query that raises ("none", "main", "thumbs",
\* "detail"); both handlers return the list as it stands.
_extract_image_urls(page) ==
    LET after_main == AddMain(<<>>, page.main)
        after_thumbs == AddThumbs(after_main, page.thumbs)
    IN  CASE page.fail = "main" -> <<>>
          [] page.fail = "thumbs" -> after_main
          [] page.fail = "detail" -> after_thumbs
          [] OTHER -> AddDetail(after_thumbs, page.detail)

(***************************************************************************)
(* ImageDownloader                                                         *)
(***************************************************************************)
\* The tokens after the last tok of s (all of s without one), and those
\* before the first: s.split(tok)[-1] and s.split(tok)[0].
AfterLast(s, tok) ==
    LET at == {i \in 1..Len(s) : s[i] = tok}
    IN  IF at = {} THEN s
        ELSE SubSeq(s, 1 + (CHOOSE i \in at : \A j \in at : j <= i), Len(s))

BeforeFirst(s, tok) ==
    LET at == {i \in 1..Len(s) : s[i] = tok}
    IN  IF at = {} THEN s
        ELSE SubSeq(s, 1, (CHOOSE i \in at : \A j \in at : i <= j) - 1)

\* str.lower() on the extension tokens in use.
Lower(t) == CASE t = "JPG" -> "jpg" [] t = "PNG" -> "png" [] OTHER -> t

KnownExtensions == {"jpg", "jpeg", "png", "gif", "webp"}

content_type_map(content_type) ==
    CASE content_type = "image/jpeg" -> <<".", "jpg">>
      [] content_type = "image/png" -> <<".", "png">>
      [] content_type = "image/gif" -> <<".", "gif">>
      [] content_type = "image/webp" -> <<".", "webp">>
      [] OTHER -> <<".", "jpg">>

_get_image_extension(url, content_type) ==
    LET ext == BeforeFirst(AfterLast(url, "."), "?")
    IN  IF /\ InList(".", AfterLast(url, "/"))
           /\ Len(ext) = 1
           /\ Lower(ext[1]) \in KnownExtensions
        THEN <<".">> \o ext
        ELSE content_type_map(content_type)

\* outcome.ok: the request, the status check and the image validation all
\* pass; outcome.content_type: the Content-Type header of the response.
\* The path is <download_path>/<product_id>/<product_id>_<index><ext>.
download_image(url, product_id, image_index, outcome) ==
    IF outcome.ok
    THEN Some([dir |-> product_id, id |-> product_id, index |-> image_index,
               ext |-> _get_image_extension(url, outcome.content_type)])
    ELSE None

\* urls[:max_images] if max_images else urls
UrlsToDownload(urls, max_images) ==
    IF TruthyInt(max_images) THEN Take(urls, Get(max_images)) ELSE urls

\* The for loop from position i (idx = i - 1) on; outcomes[i] is what the
\* i-th download_image call meets.
RECURSIVE DownloadLoop(_, _, _, _, _)
DownloadLoop(urls_to_download, i, product_id, outcomes, downloaded_images) ==
    IF i > Len(urls_to_download) THEN downloaded_images
    ELSE LET image_path == download_image(urls_to_download[i], product_id,
                                          i - 1, outcomes[i])
         IN  DownloadLoop(urls_to_download, i + 1, product_id, outcomes,
                          IF image_path # None
                          THEN Append(downloaded_images, Get(image_path))
                          ELSE downloaded_images)

\* ret: the list returned; attempts: the download_image calls made, in order.
download_images(urls, product_id, max_images, outcomes) ==
    LET urls_to_download == UrlsToDownload(urls, max_images)
    IN  [ret |-> DownloadLoop(urls_to_download, 1, product_id, outcomes, <<>>),
         attempts |-> [i \in 1..Len(urls_to_download) |->
                          [url |-> urls_to_download[i], index |-> i - 1]]]

(***************************************************************************)
(* ProductScraper._extract_product_info, scrape_product                    *)
(***************************************************************************)
SingleFields ==
    {"product_name", "brand", "price", "discount_rate", "description"}

Miss == [kind |-> "miss", text |-> ""]
Raise == [kind |-> "raise", text |-> ""]
Match(t) == [kind |-> "match", text |-> t]

\* One `try: node = select_one(..); if node: data[key] = text` block: the
\* value stored, or None when the key is left out. A selector miss and an
\* exception both leave it out.
FieldValueOrEmpty(outcome) ==
    IF outcome.kind = "raise" THEN None ELSE Some(outcome.text)

FieldValue(outcome) ==
    IF outcome.kind = "match" THEN Some(outcome.text) ELSE None

\* The categories block: the texts of the nodes selected, kept when there
\* is at least one.
CategoriesValue(outcome) ==
    IF outcome.kind = "match" /\ outcome.texts # <<>>
    THEN Some(outcome.texts) ELSE None

\* page.parse_ok is FALSE when page.content() or the parser raises: the
\* handler logs a warning and the record keeps product_id and url only.
_extract_product_info(product_id, page) ==
    LET single == IF page.parse_ok
                  THEN {k \in SingleFields : FieldValue(page.fields[k]) # None}
                  ELSE {}
        cats == IF page.parse_ok THEN CategoriesValue(page.categories)
                ELSE None
        keys == {"product_id", "url"} \cup single
                    \cup (IF cats # None THEN {"categories"} ELSE {})
    IN  [k \in keys |->
            CASE k = "product_id" -> product_id
              [] k = "url" -> page.url
              [] k = "categories" -> Get(cats)
              [] OTHER -> Get(FieldValue(page.fields[k]))]

\* Config.MAX_IMAGES_PER_PRODUCT and Config.MAX_PRODUCTS_PER_BRAND, both read
\* from the environment.
MAX_IMAGES_PER_PRODUCT == 2
MAX_PRODUCTS_PER_BRAND == 2

\* env.nav as for the crawler; env.page is the product page; env.dl the
\* outcomes of the download_image calls. attempts lists the download_image
\* calls made. ScrapeWithoutHandler is the function whose handler returns
\* the record begun before the navigation instead of None.
ScrapeWithoutHandler(product_id, download, env) ==
    IF env.nav = "interrupt"
    THEN [raised |-> TRUE, ret |-> None, attempts |-> <<>>]
    ELSE [raised |-> FALSE,
          ret |-> Some(_extract_product_info(product_id, env.page)
                           @@ ("image_urls" :> <<>>) @@ ("image_count" :> 0)),
          attempts |-> <<>>]

scrape_product(product_id, download, env) ==
    IF env.nav = "interrupt"
    THEN [raised |-> TRUE, ret |-> None, attempts |-> <<>>]
    ELSE IF env.nav = "error"
    THEN [raised |-> FALSE, ret |-> None, attempts |-> <<>>]
    ELSE LET image_urls == _extract_image_urls(env.page)
             product_data ==
                 _extract_product_info(product_id, env.page)
                     @@ ("image_urls" :> image_urls)
                     @@ ("image_count" :> Len(image_urls))
         IN  IF download /\ image_urls # <<>>
             THEN LET downloaded ==
                          download_images(image_urls, product_id,
                                          Some(MAX_IMAGES_PER_PRODUCT), env.dl)
                  IN  [raised |-> FALSE,
                       ret |-> Some(product_data
                                    @@ ("downloaded_images" :> downloaded.ret)),
                       attempts |-> downloaded.attempts]
             ELSE [raised |-> FALSE, ret |-> Some(product_data),
                   attempts |-> <<>>]

(***************************************************************************)
(* Inputs                                                                  *)
(***************************************************************************)
MaxAnchors == 4   \* anchors on a listing page
MaxCap == 3       \* largest max_products / max_images passed
MaxImgs == 2      \* image elements per source on a product page
MaxUrls == 3      \* URLs handed to download_images

\* Anchor hrefs: three ids, a second href of id 1, a reference without
\* digits, one whose first /products/ segment has no digits, and an anchor
\* the selector does not select.
Hrefs ==
    { <<"/products/", "1">>, <<"/products/", "2">>, <<"/products/", "1", "2">>,
      <<"/products/", "1", "?", "x">>, <<"/products/", "x">>,
      <<"/products/", "x", "/products/", "2">>, <<"/brand/", "1">> }

Caps == {None} \cup {Some(k) : k \in 0..MaxCap}

\* What a listing call meets. A step that is not reached has no outcome: its
\* field stays at the default.
EnvDefault ==
    [nav |-> "ok", input |-> TRUE, submit |-> "ok", filter |-> "absent",
     content |-> None]

SearchEnvs(contents) ==
    {[EnvDefault EXCEPT !.nav = n] : n \in {"error", "interrupt"}}
        \cup {[EnvDefault EXCEPT !.input = FALSE],
              [EnvDefault EXCEPT !.submit = "error"]}
        \cup {[EnvDefault EXCEPT !.filter = f, !.content = c] :
                 f \in {"absent", "clicked", "error"}, c \in contents}

RecommendEnvs(contents) ==
    {[EnvDefault EXCEPT !.nav = n] : n \in {"error", "interrupt"}}
        \cup {[EnvDefault EXCEPT !.content = c] : c \in contents}

\* The call got as far as _extract_product_ids.
ReachedExtract(env) == env.nav = "ok" /\ env.input /\ env.submit = "ok"

AllContents == {None} \cup {Some(p) : p \in SeqsUpTo(Hrefs, MaxAnchors)}

\* Image src attributes: missing, relative, plain, small thumbnail, large,
\* and a thumbnail whose directory name also holds the small-size marker.
UrlA == <<"http", "/", "a", ".", "jpg">>
UrlA125 == <<"http", "/", "a", "_125", ".", "jpg">>
UrlA500 == <<"http", "/", "a", "_500", ".", "jpg">>
UrlRel == <<"/", "a", ".", "jpg">>
UrlNoExt == <<"http", "/", "b">>
UrlTwoMarkers == <<"http", "/", "a", "_125", ".", "d", "/", "a", "_125", ".", "jpg">>
Srcs == {<<>>, UrlRel, UrlA, UrlA125, UrlA500, UrlTwoMarkers}

ImagePages ==
    [main : SeqsUpTo(Srcs, MaxImgs), thumbs : SeqsUpTo(Srcs, MaxImgs),
     detail : SeqsUpTo(Srcs, MaxImgs),
     fail : {"none", "main", "thumbs", "detail"}]

DownloadOutcomes ==
    {[ok |-> FALSE, content_type |-> ""], [ok |-> TRUE, content_type |-> ""],
     [ok |-> TRUE, content_type |-> "image/png"]}

FieldOutcomes == {Miss, Raise, Match(""), Match("Acme")}
CategoryOutcomes ==
    {[kind |-> "raise", texts |-> <<>>]}
        \cup {[kind |-> "match", texts |-> t] :
                 t \in {<<>>, <<"Top">>, <<"Top", "Tee">>}}

PageUrl == <<"http", "/", "products">>

InfoPages ==
    [url : {PageUrl}, parse_ok : BOOLEAN,
     fields : [SingleFields -> FieldOutcomes], categories : CategoryOutcomes]

(***************************************************************************)
(* The pipeline at rest                                                    *)
(***************************************************************************)
NoCall == [fn |-> "none"]
NoArgs == [mode |-> "none"]

pipeVars == <<pc, args, crawler, scraper, brand_products, harvest_log,
              harvested_ids, todo, products, results, exc>>

\* DataPipeline.__init__: no results, no session.
PipelineInit ==
    /\ pc = "idle"
    /\ args = NoArgs
    /\ crawler = NoSession
    /\ scraper = NoSession
    /\ brand_products = <<>>
    /\ harvest_log = <<>>
    /\ harvested_ids = <<>>
    /\ todo = <<>>
    /\ products = <<>>
    /\ results = <<>>
    /\ exc = "none"

Init == call = NoCall /\ PipelineInit

(***************************************************************************)
(* The components called on their own                                      *)
(***************************************************************************)
CallExtractProductIds ==
    /\ call = NoCall
    /\ \E content \in AllContents, max_products \in Caps :
        /\ call' = [fn |-> "_extract_product_ids",
                    env |-> [EnvDefault EXCEPT !.content = content],
                    max_products |-> max_products,
                    out |-> Returned(Some(
                               _extract_product_ids(content, max_products)))]
        /\ UNCHANGED pipeVars

CallSearchBrandProducts ==
    /\ call = NoCall
    /\ \E env \in SearchEnvs(AllContents), max_products \in Caps :
        /\ call' = [fn |-> "search_brand_products", env |-> env,
                    max_products |-> max_products,
                    out |-> search_brand_products("A", max_products, env)]
        /\ UNCHANGED pipeVars

CallGetRecommendProducts ==
    /\ call = NoCall
    /\ \E env \in RecommendEnvs(AllContents), max_products \in Caps :
        /\ call' = [fn |-> "get_recommend_products", env |-> env,
                    max_products |-> max_products,
                    out |-> get_recommend_products("A", max_products, env)]
        /\ UNCHANGED pipeVars

NextHarvest ==
    \/ CallExtractProductIds
    \/ CallSearchBrandProducts
    \/ CallGetRecommendProducts

SpecHarvest == Init /\ [][NextHarvest]_vars

CallExtractImageUrls ==
    /\ call = NoCall
    /\ \E page \in ImagePages :
        /\ call' = [fn |-> "_extract_image_urls", page |-> page,
                    ret |-> _extract_image_urls(page)]
        /\ UNCHANGED pipeVars

SpecImages == Init /\ [][CallExtractImageUrls]_vars

CallDownloadImages ==
    /\ call = NoCall
    /\ \E urls \in SeqsUpTo({UrlA, UrlA500, UrlNoExt}, MaxUrls),
          max_images \in Caps,
          outcomes \in [1..MaxUrls -> DownloadOutcomes] :
        /\ call' = [fn |-> "download_images", urls |-> urls,
                    max_images |-> max_images, outcomes |-> outcomes,
                    out |-> download_images(urls, <<"1">>, max_images, outcomes)]
        /\ UNCHANGED pipeVars

SpecDownload == Init /\ [][CallDownloadImages]_vars

CallExtractProductInfo ==
    /\ call = NoCall
    /\ \E page \in InfoPages :
        /\ call' = [fn |-> "_extract_product_info", page |-> page,
                    ret |-> _extract_product_info(<<"1">>, page)]
        /\ UNCHANGED pipeVars

SpecInfo == Init /\ [][CallExtractProductInfo]_vars

(***************************************************************************)
(* DataPipeline.run_brand_pipeline, run_recommend_pipeline                 *)
(***************************************************************************)
\* a or default, for an Optional[int] a
OrDefault(a, default) == IF TruthyInt(a) THEN a ELSE Some(default)

\* results[key] = val on a dict kept in insertion order
DictSet(d, key, val) ==
    IF \E i \in 1..Len(d) : d[i].key = key
    THEN [i \in 1..Len(d) |->
             IF d[i].key = key THEN [key |-> key, val |-> val] ELSE d[i]]
    ELSE Append(d, [key |-> key, val |-> val])

HasKey(d, key) == \E i \in 1..Len(d) : d[i].key = key
DictGet(d, key) == d[CHOOSE i \in 1..Len(d) : d[i].key = key].val

\* The nested loops over brand_products.items() and each product_ids.
RECURSIVE Flatten(_)
Flatten(d) ==
    IF d = <<>> THEN <<>>
    ELSE [i \in 1..Len(Get(d[1].val)) |->
             [brand |-> d[1].key, product_id |-> Get(d[1].val)[i]]]
         \o Flatten(Tail(d))

\* What the pipelines are run on.
BrandLists == {<<>>, <<"A">>, <<"A", "B">>}
PipeCaps == {None, Some(0), Some(1)}
ListingContents ==
    {None, Some(<<>>),
     Some(<< <<"/products/", "1">>, <<"/products/", "2">>,
             <<"/products/", "1">> >>)}

NoImages == [main |-> <<>>, thumbs |-> <<>>, detail |-> <<>>, fail |-> "none"]
PageFull ==
    [url |-> PageUrl, parse_ok |-> TRUE,
     fields |-> [k \in SingleFields |->
                    IF k = "price" THEN Miss ELSE Match("Acme")],
     categories |-> [kind |-> "match", texts |-> <<"Top">>],
     main |-> <<UrlA>>, thumbs |-> <<UrlA125>>, detail |-> <<>>,
     fail |-> "none"]
PageUnparsed ==
    [url |-> PageUrl, parse_ok |-> FALSE,
     fields |-> [k \in SingleFields |-> Miss],
     categories |-> [kind |-> "match", texts |-> <<>>],
     main |-> <<>>, thumbs |-> <<>>, detail |-> <<>>, fail |-> "none"]
ProductPages == {PageFull, PageUnparsed}

NoDownloads == [i \in 1..MaxUrls |-> [ok |-> FALSE, content_type |-> ""]]
PipeDownloads ==
    {[i \in 1..MaxUrls |-> [ok |-> i \in oks, content_type |-> ""]] :
        oks \in SUBSET (1..2)}

ProductEnvs ==
    {[nav |-> n, page |-> PageUnparsed, dl |-> NoDownloads] :
        n \in {"error", "interrupt"}}
        \cup {[nav |-> "ok", page |-> p, dl |-> d] :
                 p \in ProductPages, d \in PipeDownloads}

\* Lines 42-53 up to the first brand: `with BrandCrawler(...) as crawler`
\* runs __enter__, which opens the session.
RunBrandPipeline ==
    /\ pc = "idle"
    /\ \E brand_names \in BrandLists, max_products_per_brand \in PipeCaps,
          download \in BOOLEAN :
        /\ args' = [mode |-> "brand", brand_names |-> brand_names,
                    max_products |-> max_products_per_brand,
                    download_images |-> download]
        /\ pc' = IF brand_names = <<>> THEN "crawl_end" ELSE "harvest"
    /\ crawler' = _init_browser(crawler)
    /\ UNCHANGED <<call, scraper, brand_products, harvest_log, harvested_ids,
                   todo, products, results, exc>>

\* One iteration of the loop of get_brand_products_multi.
SearchBrand ==
    /\ pc = "harvest"
    /\ \E env \in SearchEnvs(ListingContents) :
        LET brand_name == args.brand_names[Len(harvest_log) + 1]
            cap == OrDefault(args.max_products, MAX_PRODUCTS_PER_BRAND)
            out == search_brand_products(brand_name, cap, env)
        IN  /\ call' = [fn |-> "search_brand_products", env |-> env,
                        max_products |-> cap, out |-> out]
            /\ harvest_log' = Append(harvest_log,
                                     [brand |-> brand_name, env |-> env])
            /\ brand_products' =
                   IF out.raised THEN brand_products
                   ELSE DictSet(brand_products, brand_name, out.ret)
            /\ exc' = IF out.raised THEN "KeyboardInterrupt" ELSE exc
            /\ pc' = IF out.raised
                        \/ Len(harvest_log) + 1 = Len(args.brand_names)
                     THEN "crawl_end" ELSE "harvest"
    /\ UNCHANGED <<args, crawler, scraper, harvested_ids, todo, products,
                   results>>

\* Lines 97-107 up to the harvest.
RunRecommendPipeline ==
    /\ pc = "idle"
    /\ \E max_products \in PipeCaps, download \in BOOLEAN :
        args' = [mode |-> "recommend", brand_names |-> <<>>,
                 max_products |-> max_products, download_images |-> download]
    /\ pc' = "recommend"
    /\ crawler' = _init_browser(crawler)
    /\ UNCHANGED <<call, scraper, brand_products, harvest_log, harvested_ids,
                   todo, products, results, exc>>

GetRecommend ==
    /\ pc = "recommend"
    /\ \E env \in RecommendEnvs(ListingContents) :
        LET cap == OrDefault(args.max_products, MAX_PRODUCTS_PER_BRAND)
            out == get_recommend_products("A", cap, env)
        IN  /\ call' = [fn |-> "get_recommend_products", env |-> env,
                        max_products |-> cap, out |-> out]
            /\ harvested_ids' = IF out.raised THEN harvested_ids ELSE Get(out.ret)
            /\ exc' = IF out.raised THEN "KeyboardInterrupt" ELSE exc
    /\ pc' = "crawl_end"
    /\ UNCHANGED <<args, crawler, scraper, brand_products, harvest_log, todo,
                   products, results>>

\* BrandCrawler.__exit__ at the end of the with block, reached normally or
\* with the exception propagating.
CrawlerExit ==
    /\ pc = "crawl_end"
    /\ crawler' = close(crawler)
    /\ pc' = IF exc # "none" THEN "aborted" ELSE "harvested"
    /\ UNCHANGED <<call, args, scraper, brand_products, harvest_log,
                   harvested_ids, todo, products, results, exc>>

\* run_brand_pipeline lines 56-63: len(ids) of every harvest (a TypeError
\* for a None), then `with ProductScraper(...) as scraper`.
Summarise ==
    /\ pc = "harvested"
    /\ args.mode = "brand"
    /\ IF \E i \in 1..Len(brand_products) : brand_products[i].val = None
       THEN /\ exc' = "TypeError"
            /\ pc' = "aborted"
            /\ UNCHANGED <<scraper, todo>>
       ELSE /\ scraper' = _init_browser(scraper)
            /\ todo' = Flatten(brand_products)
            /\ pc' = IF Flatten(brand_products) = <<>>
                     THEN "scrape_end" ELSE "scrape"
            /\ exc' = exc
    /\ UNCHANGED <<call, args, crawler, brand_products, harvest_log,
                   harvested_ids, products, results>>

\* run_brand_pipeline lines 67-77: one product.
ScrapeProduct ==
    /\ pc = "scrape"
    /\ args.mode = "brand"
    /\ \E env \in ProductEnvs :
        LET product_id == Head(todo).product_id
            out == scrape_product(product_id, args.download_images, env)
        IN  /\ call' = [fn |-> "scrape_product", product_id |-> product_id,
                        download |-> args.download_images, env |-> env,
                        out |-> out]
            /\ results' =
                   IF out.ret # None
                   THEN Append(results,
                               Get(out.ret)
                                   @@ ("target_brand" :> Head(todo).brand))
                   ELSE results
            /\ exc' = IF out.raised THEN "KeyboardInterrupt" ELSE exc
            /\ pc' = IF out.raised \/ Len(todo) = 1
                     THEN "scrape_end" ELSE "scrape"
    /\ todo' = Tail(todo)
    /\ UNCHANGED <<args, crawler, scraper, brand_products, harvest_log,
                   harvested_ids, products>>

\* run_recommend_pipeline lines 109-114: `with ProductScraper(...)`, and
\* scrape_products up to its loop.
StartScrapeProducts ==
    /\ pc = "harvested"
    /\ args.mode = "recommend"
    /\ scraper' = _init_browser(scraper)
    /\ todo' = [i \in 1..Len(harvested_ids) |->
                   [brand |-> "", product_id |-> harvested_ids[i]]]
    /\ products' = <<>>
    /\ pc' = IF harvested_ids = <<>> THEN "scrape_end" ELSE "scrape"
    /\ UNCHANGED <<call, args, crawler, brand_products, harvest_log,
                   harvested_ids, results, exc>>

\* One iteration of the loop of scrape_products, which calls
\* scrape_product(product_id) with download_images at its default, True.
ScrapeProductsStep ==
    /\ pc = "scrape"
    /\ args.mode = "recommend"
    /\ \E env \in ProductEnvs :
        LET product_id == Head(todo).product_id
            out == scrape_product(product_id, TRUE, env)
        IN  /\ call' = [fn |-> "scrape_product", product_id |-> product_id,
                        download |-> TRUE, env |-> env, out |-> out]
            /\ products' = IF out.ret # None
                           THEN Append(products, Get(out.ret)) ELSE products
            /\ exc' = IF out.raised THEN "KeyboardInterrupt" ELSE exc
            /\ pc' = IF out.raised \/ Len(todo) = 1
                     THEN "scrape_end" ELSE "scrape"
    /\ todo' = Tail(todo)
    /\ UNCHANGED <<args, crawler, scraper, brand_products, harvest_log,
                   harvested_ids, results>>

\* The end of the with block: run_recommend_pipeline extends results with
\* what scrape_products returned, then ProductScraper.__exit__ closes.
ScraperExit ==
    /\ pc = "scrape_end"
    /\ results' = IF args.mode = "recommend" /\ exc = "none"
                  THEN results \o products ELSE results
    /\ scraper' = close(scraper)
    /\ pc' = IF exc # "none" THEN "aborted" ELSE "done"
    /\ UNCHANGED <<call, args, crawler, brand_products, harvest_log,
                   harvested_ids, todo, products, exc>>

Next ==
    \/ RunBrandPipeline
    \/ SearchBrand
    \/ RunRecommendPipeline
    \/ GetRecommend
    \/ CrawlerExit
    \/ Summarise
    \/ ScrapeProduct
    \/ StartScrapeProducts
    \/ ScrapeProductsStep
    \/ ScraperExit

Spec == Init /\ [][Next]_vars

(***************************************************************************)
(* DataPipeline.save_to_csv, save_to_json, get_summary                     *)
(***************************************************************************)
\* filename, or the timestamped default when filename is None or empty; now
\* is the timestamp datetime.now() gives.
FileNameOr(filename, now, suffix) ==
    IF filename # None /\ Get(filename) # <<>> THEN Get(filename)
    ELSE <<"musinsa_products_", now, suffix>>

\* Config.CSV_OUTPUT_PATH / filename, used by both save functions.
OutputPath(name) == [dir |-> "CSV_OUTPUT_PATH", name |-> name]

\* The columns of pd.DataFrame(self.results): every key of every record.
Columns(self_results) ==
    UNION {DOMAIN self_results[i] : i \in 1..Len(self_results)}

\* SaveToCsvAlways is save_to_csv without its test for empty results.
SaveToCsvAlways(self_results, filename, now) ==
    LET output_path == OutputPath(FileNameOr(filename, now, ".csv"))
    IN  [ret |-> Some(output_path),
         written |-> <<[path |-> output_path, columns |-> Columns(self_results),
                        rows |-> Len(self_results)]>>]

\* ret: the value returned; written: the files written, with the columns
\* and the number of rows of the frame.
save_to_csv(self_results, filename, now) ==
    IF self_results = <<>> THEN [ret |-> None, written |-> <<>>]
    ELSE LET output_path == OutputPath(FileNameOr(filename, now, ".csv"))
         IN  [ret |-> Some(output_path),
              written |-> <<[path |-> output_path,
                             columns |-> Columns(self_results),
                             rows |-> Len(self_results)]>>]

\* written: the file written, with the list json.dump is given.
save_to_json(self_results, filename, now) ==
    IF self_results = <<>> THEN [ret |-> None, written |-> <<>>]
    ELSE LET output_path == OutputPath(FileNameOr(filename, now, ".json"))
         IN  [ret |-> Some(output_path),
              written |-> <<[path |-> output_path, records |-> self_results]>>]

\* sum(r.get('image_count', 0) for r in self.self_results)
RECURSIVE TotalImages(_)
TotalImages(self_results) ==
    IF self_results = <<>> THEN 0
    ELSE (IF "image_count" \in DOMAIN Head(self_results)
          THEN Head(self_results)["image_count"] ELSE 0)
             + TotalImages(Tail(self_results))

\* df[column].value_counts().to_dict(): the values of the column among the
\* records that have it, each with the number of its records.
ValueCounts(self_results, column) ==
    LET having == {i \in 1..Len(self_results) :
                      column \in DOMAIN self_results[i]}
    IN  [v \in {self_results[i][column] : i \in having} |->
            Cardinality({i \in having : self_results[i][column] = v})]

get_summary(self_results) ==
    IF self_results = <<>> THEN [message |-> "no data collected"]
    ELSE [total_products |-> Len(self_results),
          products_with_images |->
              Cardinality({i \in 1..Len(self_results) :
                              /\ "downloaded_images" \in DOMAIN self_results[i]
                              /\ self_results[i]["downloaded_images"] # <<>>}),
          total_images |-> TotalImages(self_results)]
         @@ (IF "brand" \in Columns(self_results)
             THEN "brands" :> ValueCounts(self_results, "brand") ELSE <<>>)
         @@ (IF "target_brand" \in Columns(self_results)
             THEN "target_brands" :> ValueCounts(self_results, "target_brand")
             ELSE <<>>)

MaxRecords == 2   \* records in results when it is saved or summarised

\* Records as scrape_product returns them, bare (run_recommend_pipeline) and
\* with the target_brand that run_brand_pipeline adds.
ScrapedRecords ==
    LET outs == {scrape_product(id, TRUE, env) :
                    id \in {<<"1">>, <<"2">>}, env \in ProductEnvs}
        rets == {Get(o.ret) : o \in {x \in outs : x.ret # None}}
    IN  rets \cup {r @@ ("target_brand" :> "A") : r \in rets}

FileNames == {None, Some(<<>>), Some(<<"out">>)}

CallSaveToCsv ==
    /\ call = NoCall
    /\ \E rs \in SeqsUpTo(ScrapedRecords, MaxRecords), filename \in FileNames :
        /\ call' = [fn |-> "save_to_csv", results |-> rs,
                    filename |-> filename,
                    out |-> save_to_csv(rs, filename, "now")]
        /\ UNCHANGED pipeVars

CallSaveToJson ==
    /\ call = NoCall
    /\ \E rs \in SeqsUpTo(ScrapedRecords, MaxRecords), filename \in FileNames :
        /\ call' = [fn |-> "save_to_json", results |-> rs,
                    filename |-> filename,
                    out |-> save_to_json(rs, filename, "now")]
        /\ UNCHANGED pipeVars

CallGetSummary ==
    /\ call = NoCall
    /\ \E rs \in SeqsUpTo(ScrapedRecords, MaxRecords) :
        /\ call' = [fn |-> "get_summary", results |-> rs,
                    ret |-> get_summary(rs)]
        /\ UNCHANGED pipeVars

NextReport == CallSaveToCsv \/ CallSaveToJson \/ CallGetSummary

SpecReport == Init /\ [][NextReport]_vars

(***************************************************************************)
(* ImageDownloader._get_image_extension on its own                         *)
(***************************************************************************)
\* Image URLs: a host with or without a dot in its name, a file name with
\* or without an extension, and no query string, a plain one, one holding a
\* dot, or one holding a slash.
ExtensionUrls ==
    {<<"http", "/">> \o host \o <<"/", "a">> \o ext \o query :
        host \in {<<"h">>, <<"h", ".", "com">>},
        ext \in {<<>>, <<".", "jpg">>, <<".", "JPG">>, <<".", "png">>,
                 <<".", "webp">>, <<".", "bmp">>},
        query \in {<<>>, <<"?", "v">>, <<"?", "v", ".", "2">>,
                   <<"?", "u", "/", "x">>}}

ContentTypes ==
    {"", "image/jpeg", "image/png", "image/gif", "image/webp", "text/html"}

CallGetImageExtension ==
    /\ call = NoCall
    /\ \E url \in ExtensionUrls, content_type \in ContentTypes :
        /\ call' = [fn |-> "_get_image_extension", url |-> url,
                    content_type |-> content_type,
                    ret |-> _get_image_extension(url, content_type)]
        /\ UNCHANGED pipeVars

SpecExtension == Init /\ [][CallGetImageExtension]_vars

(***************************************************************************)
(* Properties                                                              *)
(***************************************************************************)
NoDuplicates(s) == \A i, j \in 1..Len(s) : i # j => s[i] # s[j]

\* The elements of s at their first occurrence, in order.
FirstOccurrences(s) ==
    LET keep == {i \in 1..Len(s) : \A j \in 1..(i - 1) : s[j] # s[i]}
    IN  [n \in 1..Cardinality(keep) |->
            s[CHOOSE i \in keep : Cardinality({j \in keep : j <= i}) = n]]

\* The last call is a listing call that read a page: its anchors, its ids.
HarvestedFromPage ==
    /\ call.fn \in {"_extract_product_ids", "search_brand_products",
                    "get_recommend_products"}
    /\ ReachedExtract(call.env)
    /\ call.env.content # None
CallAnchors == Get(call.env.content)
CallIds == Get(call.out.ret)
\* The ids the anchors of the page refer to.
AnchorIds ==
    {ReSearchProductId(CallAnchors[i]) : i \in 1..Len(CallAnchors)} \ {<<>>}
FirstAnchorOf(id) ==
    CHOOSE i \in 1..Len(CallAnchors) :
        /\ ReSearchProductId(CallAnchors[i]) = id
        /\ \A j \in 1..(i - 1) : ReSearchProductId(CallAnchors[j]) # id

\* C1: the ids harvested from a page are ids of its anchors, no id occurs
\* twice, they stand in the order of their first anchors, and every id of
\* the page is among them unless the cap max_products ended the scan.
C1_IdsOnceInFirstAppearanceOrder ==
    HarvestedFromPage =>
        /\ NoDuplicates(CallIds)
        /\ \A i \in 1..Len(CallIds) : CallIds[i] \in AnchorIds
        /\ \A i, j \in 1..Len(CallIds) :
               i < j => FirstAnchorOf(CallIds[i]) < FirstAnchorOf(CallIds[j])
        /\ (~TruthyInt(call.max_products)
              \/ Len(CallIds) < Get(call.max_products))
               => \A id \in AnchorIds : InList(id, CallIds)

\* A page on which id 1 is referred to twice, by different hrefs around an
\* anchor of id 2, harvested without a cap.
C1_Witness ==
    /\ HarvestedFromPage
    /\ call.max_products = None
    /\ \E i, j \in 1..Len(CallAnchors) :
           /\ i + 1 < j
           /\ CallAnchors[i] # CallAnchors[j]
           /\ ReSearchProductId(CallAnchors[i]) = <<"1">>
           /\ ReSearchProductId(CallAnchors[j]) = <<"1">>
           /\ ReSearchProductId(CallAnchors[i + 1]) = <<"2">>
    /\ CallIds = << <<"1">>, <<"2">> >>

\* C2: with max_products = k >= 0 and more than k distinct ids on the page,
\* exactly k ids are harvested.
C2_CapExact ==
    (/\ HarvestedFromPage
     /\ call.max_products # None
     /\ Cardinality(AnchorIds) > Get(call.max_products))
        => Len(CallIds) = Get(call.max_products)

\* The src attributes of imgs that are kept: the http ones.
KeptSrcs(imgs) == SelectSeq(imgs, IsHttp)
Rewritten(imgs) ==
    [i \in 1..Len(imgs) |-> Replace(imgs[i], SmallMarker, LargeMarker)]

\* C3: image_urls lists the main URLs, then the rewritten thumbnail URLs,
\* then the detail URLs, each in discovery order, and no string twice.
C3_MergeOrderNoDuplicates ==
    (call.fn = "_extract_image_urls" /\ call.page.fail = "none")
        => /\ NoDuplicates(call.ret)
           /\ call.ret = FirstOccurrences(
                             KeptSrcs(call.page.main)
                                 \o Rewritten(KeptSrcs(call.page.thumbs))
                                 \o KeptSrcs(call.page.detail))

\* C4: a record returned by scrape_product holds downloaded_images only if
\* download was requested and at least one download succeeded.
C4_DownloadedImagesOnlyOnSuccess ==
    (/\ call.fn = "scrape_product"
     /\ call.out.ret # None
     /\ "downloaded_images" \in DOMAIN Get(call.out.ret))
        => /\ call.download
           /\ Get(call.out.ret)["downloaded_images"] # <<>>

\* C5: whatever harvesting, extraction and download meet, a pipeline run
\* ends normally: only an interrupt from outside ends it early.
C5_RunsToCompletion == pc = "aborted" => exc = "KeyboardInterrupt"

\* An exception (an Exception, not an interrupt) was raised during the
\* listing call that met env: anywhere, and anywhere but in the brand-filter
\* step.
ExceptionRaised(env) ==
    \/ env.nav = "error"
    \/ env.submit = "error"
    \/ env.filter = "error"
    \/ (ReachedExtract(env) /\ env.content = None)
ExceptionOutsideFilter(env) ==
    \/ env.nav = "error"
    \/ env.submit = "error"
    \/ (ReachedExtract(env) /\ env.content = None)

\* get_brand_products_multi has returned.
MultiReturned == pc = "crawl_end" /\ args.mode = "brand" /\ exc = "none"

\* Every brand listed after the i-th was searched and has its entry.
LaterBrandsHarvested(i) ==
    \A j \in (i + 1)..Len(args.brand_names) :
        /\ j <= Len(harvest_log)
        /\ harvest_log[j].brand = args.brand_names[j]
        /\ HasKey(brand_products, args.brand_names[j])

\* C6 as stated: an exception raised while harvesting brand b leaves an
\* empty sequence for b, and the brands after b are still harvested.
C6_AnyExceptionYieldsEmpty ==
    MultiReturned =>
        \A i \in 1..Len(harvest_log) :
            ExceptionRaised(harvest_log[i].env) =>
                /\ DictGet(brand_products, harvest_log[i].brand) = Some(<<>>)
                /\ LaterBrandsHarvested(i)

\* C6 amended: an exception raised in navigation, in submitting the search
\* or in reading the page leaves an empty sequence for b; one raised in the
\* brand-filter step is absorbed and b gets what the search gives without
\* the filter, the ids of the result page; either way the brands after b are
\* still harvested.
C6_ExceptionOutsideFilterYieldsEmpty ==
    MultiReturned =>
        \A i \in 1..Len(harvest_log) :
            LET env == harvest_log[i].env
                cap == OrDefault(args.max_products, MAX_PRODUCTS_PER_BRAND)
                ids == DictGet(brand_products, harvest_log[i].brand)
            IN  /\ ExceptionOutsideFilter(env) => ids = Some(<<>>)
                /\ (env.filter = "error" /\ env.content # None) =>
                       ids = Some(_extract_product_ids(env.content, cap))
                /\ ExceptionRaised(env) => LaterBrandsHarvested(i)

\* Navigation fails for the first of two brands and the second is harvested.
C6_Witness ==
    /\ MultiReturned
    /\ Len(harvest_log) = 2
    /\ harvest_log[1].env.nav = "error"
    /\ DictGet(brand_products, "A") = Some(<<>>)
    /\ DictGet(brand_products, "B") = Some(<< <<"1">>, <<"2">> >>)

NavigationError(env) == env.nav = "error"
ParserError(env) == env.nav = "ok" /\ ~env.page.parse_ok

ProductIdsOf(records) == [i \in 1..Len(records) |-> records[i]["product_id"]]
PositionIn(ids, id) == CHOOSE i \in 1..Len(ids) : ids[i] = id

OkAttempts ==
    {i \in 1..Len(call.out.attempts) : call.outcomes[i].ok}
NthOkAttempt(n) ==
    CHOOSE i \in OkAttempts : Cardinality({j \in OkAttempts : j <= i}) = n

\* C8: with max_images = m given, download_images attempts the first m URLs
\* once each, in order, so at most m downloads, and returns the paths of the
\* successes in attempt order.
C8_AtMostMaxImagesAttempts ==
    (call.fn = "download_images" /\ call.max_images # None) =>
        LET m == Get(call.max_images)
            attempts == call.out.attempts
        IN  /\ Len(attempts) <= m
            /\ [i \in 1..Len(attempts) |-> attempts[i].url]
                   = Take(call.urls, m)
            /\ Len(call.out.ret) = Cardinality(OkAttempts)
            /\ \A n \in 1..Len(call.out.ret) :
                   call.out.ret[n].index = attempts[NthOkAttempt(n)].index

C10_AbsentOnMissPresentOnMatch ==
    (call.fn = "_extract_product_info" /\ call.page.parse_ok) =>
        /\ \A k \in SingleFields :
               LET o == call.page.fields[k]
               IN  /\ o.kind = "miss" => k \notin DOMAIN call.ret
                   /\ o.kind = "match" =>
                          k \in DOMAIN call.ret /\ call.ret[k] = o.text
        /\ LET c == call.page.categories
           IN  /\ (c.kind = "match" /\ c.texts = <<>>)
                      => "categories" \notin DOMAIN call.ret
               /\ (c.kind = "match" /\ c.texts # <<>>)
                      => /\ "categories" \in DOMAIN call.ret
                         /\ call.ret["categories"] = c.texts

\* The price selector misses, the description block raises, and name and
\* brand are still there.
C10_Witness ==
    /\ call.fn = "_extract_product_info"
    /\ call.page.parse_ok
    /\ call.page.fields["price"] = Miss
    /\ call.page.fields["description"] = Raise
    /\ call.page.categories.texts = <<>>
    /\ call.page.fields["product_name"] = Match("Acme")
    /\ call.page.fields["brand"] = Match("Acme")
    /\ DOMAIN call.ret = {"product_id", "url", "product_name", "brand",
                          "discount_rate"}

\* s with its first occurrence of old replaced by new, the rest unchanged.
RECURSIVE ReplaceFirst(_, _, _)
ReplaceFirst(s, old, new) ==
    IF Len(s) < Len(old) THEN s
    ELSE IF SubSeq(s, 1, Len(old)) = old
         THEN new \o SubSeq(s, Len(old) + 1, Len(s))
         ELSE <<s[1]>> \o ReplaceFirst(Tail(s), old, new)

\* The last call is an _extract_image_urls call that went through the
\* thumbnails.
ThumbnailsRead ==
    /\ call.fn = "_extract_image_urls"
    /\ call.page.fail \notin {"main", "thumbs"}

\* C11: the URL listed for an http thumbnail is its src with the small-size
\* marker replaced by the large-size marker once, the rest of the src
\* unchanged, also when the marker occurs in the src more than once.
C11_MarkerRewrittenOnce ==
    ThumbnailsRead =>
        \A i \in 1..Len(call.page.thumbs) :
            IsHttp(call.page.thumbs[i]) =>
                InList(ReplaceFirst(call.page.thumbs[i], SmallMarker,
                                    LargeMarker),
                       call.ret)

\* The paths a record refers to: none without the key.
DownloadedImagesOf(record) ==
    IF "downloaded_images" \in DOMAIN record
    THEN {record["downloaded_images"][k] :
             k \in 1..Len(record["downloaded_images"])}
    ELSE {}

\* C12: no two records of results refer to the same downloaded file.
C12_PathsNotShared ==
    \A i, j \in 1..Len(results) :
        i # j => DownloadedImagesOf(results[i])
                     \cap DownloadedImagesOf(results[j]) = {}

\* C13: the files written by a download_images call carry the indices
\* 0, 1, ..., n-1 in the order written, n the number of successes: a failed
\* download uses up no index.
C13_IndicesWithoutGaps ==
    call.fn = "download_images" =>
        \A n \in 1..Len(call.out.ret) : call.out.ret[n].index = n - 1

\* C14: on empty results save_to_csv and save_to_json return None and write
\* no file, and get_summary returns the no-data message alone; on non-empty
\* results the save functions write one file and return its path, and
\* get_summary reports total_products as the number of records.
C14_EmptyRunSentinels ==
    /\ call.fn \in {"save_to_csv", "save_to_json"} =>
           IF call.results = <<>>
           THEN call.out.ret = None /\ call.out.written = <<>>
           ELSE /\ call.out.ret # None
                /\ Len(call.out.written) = 1
                /\ call.out.written[1].path = Get(call.out.ret)
    /\ call.fn = "get_summary" =>
           IF call.results = <<>>
           THEN DOMAIN call.ret = {"message"}
           ELSE /\ "message" \notin DOMAIN call.ret
                /\ "total_products" \in DOMAIN call.ret
                /\ call.ret["total_products"] = Len(call.results)

\* save_to_csv called with a file name on empty results.
C14_Witness ==
    /\ call.fn = "save_to_csv"
    /\ call.results = <<>>
    /\ call.filename = Some(<<"out">>)
    /\ call.out = [ret |-> None, written |-> <<>>]

\* The extension of the path of url: what follows the last dot of the last
\* segment of the part before the query string, <<>> without such a dot.
PathExtension(url) ==
    LET name == AfterLast(BeforeFirst(url, "?"), "/")
    IN  IF InList(".", name) THEN AfterLast(name, ".") ELSE <<>>

\* C15: _get_image_extension returns the extension of the URL's path when
\* it is a known image extension, with or without a query string after it,
\* otherwise the extension mapped from the content type, otherwise .jpg.
C15_ExtensionResolution ==
    call.fn = "_get_image_extension" =>
        LET ext == PathExtension(call.url)
        IN  call.ret =
                IF Len(ext) = 1 /\ Lower(ext[1]) \in KnownExtensions
                THEN <<".">> \o ext
                ELSE content_type_map(call.content_type)

\* C16: in a run with download_images = False no download is attempted and
\* no record of the run has the key downloaded_images.
C16_NoDownloadWhenNotRequested ==
    (args.mode # "none" /\ ~args.download_images) =>
        /\ call.fn = "scrape_product" => call.out.attempts = <<>>
        /\ \A i \in 1..Len(products) :
               "downloaded_images" \notin DOMAIN products[i]
        /\ \A i \in 1..Len(results) :
               "downloaded_images" \notin DOMAIN results[i]

=============================================================================
